---- MODULE Spec2Model ----
(***************************************************************************)
(* passport-telegram: the Strategy class of src/Strategy.js.               *)
(*                                                                         *)
(* A JavaScript string is a sequence of one-character strings, so that     *)
(* concatenation, sorting by code unit, Number() and a one-character       *)
(* change are computed and not assumed.  SHA-256 and HMAC-SHA-256 are the  *)
(* usual symbolic terms: a digest is a term over its inputs, equal to      *)
(* another digest only when algorithm, key and message are equal.          *)
(***************************************************************************)
EXTENDS Integers, Sequences, FiniteSets, TLC

VARIABLES
    strategy,   \* the Strategy instance: options, hashedBotToken, or none yet
    vq,         \* a direct call strategy.validateQuery(query): input and result
    att         \* the authenticate(req) runs, one record per attempt

vars == <<strategy, vq, att>>

(***************************************************************************)
(* Strings                                                                 *)
(***************************************************************************)
Lower == <<"a", "b", "c", "d", "e", "f", "g", "h", "i", "j", "k", "l", "m",
           "n", "o", "p", "q", "r", "s", "t", "u", "v", "w", "x", "y", "z">>

Digits == <<"0", "1", "2", "3", "4", "5", "6", "7", "8", "9">>

IndexOf(seq, c) == CHOOSE i \in 1..Len(seq) : seq[i] = c

IsDigit(c) == \E i \in 1..Len(Digits) : Digits[i] = c

\* The UTF-16 code unit of a character of the model's alphabet.
Chars ==
    {"\n", "=", "_"} \cup {Digits[i] : i \in 1..Len(Digits)}
                     \cup {Lower[i] : i \in 1..Len(Lower)}

CharCodeTable ==
    [c \in Chars |->
        IF c = "\n" THEN 10
        ELSE IF c = "=" THEN 61
        ELSE IF c = "_" THEN 95
        ELSE IF IsDigit(c) THEN 47 + IndexOf(Digits, c)
        ELSE 96 + IndexOf(Lower, c)]

CharCode(c) == CharCodeTable[c]

\* a < b in the order of Array.prototype.sort() without a comparator:
\* strings compared code unit by code unit, a proper prefix first.
RECURSIVE StrLess(_, _)
StrLess(a, b) ==
    IF a = <<>> THEN b # <<>>
    ELSE IF b = <<>> THEN FALSE
    ELSE IF CharCode(Head(a)) # CharCode(Head(b))
         THEN CharCode(Head(a)) < CharCode(Head(b))
         ELSE StrLess(Tail(a), Tail(b))

RECURSIVE InsertSorted(_, _)
InsertSorted(s, sorted) ==
    IF sorted = <<>> THEN <<s>>
    ELSE IF StrLess(s, Head(sorted)) THEN <<s>> \o sorted
    ELSE <<Head(sorted)>> \o InsertSorted(s, Tail(sorted))

\* Array.prototype.sort() on an array of strings.
RECURSIVE ArraySort(_)
ArraySort(arr) ==
    IF arr = <<>> THEN <<>>
    ELSE InsertSorted(Head(arr), ArraySort(Tail(arr)))

\* Array.prototype.join(sep) on an array of strings.
RECURSIVE ArrayJoin(_, _)
ArrayJoin(arr, sep) ==
    IF arr = <<>> THEN <<>>
    ELSE IF Len(arr) = 1 THEN Head(arr)
    ELSE Head(arr) \o sep \o ArrayJoin(Tail(arr), sep)

\* Array.prototype.includes(s).
ArrayIncludes(arr, s) == \E i \in 1..Len(arr) : arr[i] = s

(***************************************************************************)
(* Field names                                                             *)
(***************************************************************************)
K_id == <<"i", "d">>
K_first_name == <<"f", "i", "r", "s", "t", "_", "n", "a", "m", "e">>
K_last_name == <<"l", "a", "s", "t", "_", "n", "a", "m", "e">>
K_username == <<"u", "s", "e", "r", "n", "a", "m", "e">>
K_photo_url == <<"p", "h", "o", "t", "o", "_", "u", "r", "l">>
K_auth_date == <<"a", "u", "t", "h", "_", "d", "a", "t", "e">>
K_hash == <<"h", "a", "s", "h">>
K_lang == <<"l", "a", "n", "g">>

(***************************************************************************)
(* Objects: a query is the sequence of its own properties <<name, value>>  *)
(* in insertion order, Object.keys() order; names are distinct.            *)
(***************************************************************************)
ObjectKeys(query) == [i \in 1..Len(query) |-> query[i][1]]

HasField(query, k) == \E i \in 1..Len(query) : query[i][1] = k

\* query[k] of a property that is present.
Field(query, k) == query[CHOOSE i \in 1..Len(query) : query[i][1] = k][2]

\* !query[k]: the property is undefined or the empty string.
Falsy(query, k) == ~HasField(query, k) \/ Field(query, k) = <<>>

(***************************************************************************)
(* crypto                                                                  *)
(***************************************************************************)
\* crypto.createHash('sha256').update(data).digest()
Sha256(data) == <<"sha256", data>>

\* crypto.createHmac('sha256', key).update(msg).digest('hex'): lowercase hex.
HmacSha256Hex(key, msg) == <<"hmac-sha256:hex", key, msg>>

\* The same digest written in uppercase hex: another string.
UpperHex(digest) == <<"HMAC-SHA256:HEX", digest[2], digest[3]>>

(***************************************************************************)
(* Number(value) and Math.round(Date.now() / 1000)                         *)
(***************************************************************************)
NaN == [nan |-> TRUE, val |-> 0]

RECURSIVE DecimalValue(_, _)
DecimalValue(s, acc) ==
    IF s = <<>> THEN acc
    ELSE DecimalValue(Tail(s), 10 * acc + (IndexOf(Digits, Head(s)) - 1))

\* Number(s) for a string over digits and letters: the empty string is 0, a
\* string of decimal digits is its value, any string with a letter is NaN
\* (the alphabet holds no sign, point, exponent, blank or x).
NumberOfString(s) ==
    IF \A i \in 1..Len(s) : IsDigit(s[i])
    THEN [nan |-> FALSE, val |-> DecimalValue(s, 0)]
    ELSE NaN

\* Number(query.auth_date); Number(undefined) is NaN.
NumberOfField(query, k) ==
    IF HasField(query, k) THEN NumberOfString(Field(query, k)) ELSE NaN

\* Math.round(ms / 1000): to the nearest integer, a half rounds up.
MathRoundSeconds(ms) == (ms + 500) \div 1000

(***************************************************************************)
(* An optional value: <<>> when undefined, <<v>> when v.                   *)
(***************************************************************************)
None == <<>>

Some(v) == <<v>>

(***************************************************************************)
(* Strategy: constructor                                                   *)
(***************************************************************************)
DefaultQueryExpiration == 86400

\* No instance yet; args keeps what the constructor was called with.
NoStrategy ==
    [made |-> "no",
     args |-> <<>>,
     options |-> [botToken |-> <<>>, queryExpiration |-> 0,
                  passReqToCallback |-> FALSE],
     hashedBotToken |-> Sha256(<<>>)]

\* { queryExpiration: 86400, passReqToCallback: false, ...options }
MergeOptions(options) ==
    [botToken |-> options.botToken[1],
     queryExpiration |->
         IF options.queryExpiration = None THEN DefaultQueryExpiration
         ELSE options.queryExpiration[1],
     passReqToCallback |->
         IF options.passReqToCallback = None THEN FALSE
         ELSE options.passReqToCallback[1]]

\* The constructor with only an undefined botToken refused: the empty
\* string passes.
Construct_UndefinedOnly(options, verify) ==
    IF options.botToken = None
    THEN [NoStrategy EXCEPT !.made = "TypeError: options.botToken is required"]
    ELSE IF verify = None
    THEN [NoStrategy EXCEPT !.made = "TypeError: requires a verify callback"]
    ELSE [made |-> "yes",
          args |-> <<>>,
          options |-> MergeOptions(options),
          hashedBotToken |-> Sha256(options.botToken[1])]

\* new Strategy(options, verify): the instance, or the TypeError thrown.
Construct(options, verify) ==
    IF options.botToken = None \/ options.botToken = Some(<<>>)
    THEN [NoStrategy EXCEPT !.made = "TypeError: options.botToken is required"]
    ELSE IF verify = None
    THEN [NoStrategy EXCEPT !.made = "TypeError: requires a verify callback"]
    ELSE [made |-> "yes",
          args |-> <<>>,
          options |-> MergeOptions(options),
          hashedBotToken |-> Sha256(options.botToken[1])]

(***************************************************************************)
(* Strategy: isAlive, hasValidSignature, validateQuery                     *)
(***************************************************************************)
\* isAlive with a timestamp later than the clock refused.
isAlive_NoFuture(self, query, ms) ==
    LET authDate == NumberOfField(query, K_auth_date) IN
    IF self.options.queryExpiration = -1 THEN TRUE
    ELSE IF authDate.nan THEN FALSE
    ELSE /\ MathRoundSeconds(ms) - authDate.val <= self.options.queryExpiration
         /\ MathRoundSeconds(ms) - authDate.val >= 0

\* isAlive with < in place of <=.
isAlive_Strict(self, query, ms) ==
    LET authDate == NumberOfField(query, K_auth_date) IN
    IF self.options.queryExpiration = -1 THEN TRUE
    ELSE IF authDate.nan THEN FALSE
    ELSE MathRoundSeconds(ms) - authDate.val < self.options.queryExpiration

\* isAlive with the NaN test ahead of the test for -1.
isAlive_ParseFirst(self, query, ms) ==
    LET authDate == NumberOfField(query, K_auth_date) IN
    IF authDate.nan THEN FALSE
    ELSE IF self.options.queryExpiration = -1 THEN TRUE
    ELSE MathRoundSeconds(ms) - authDate.val <= self.options.queryExpiration

\* isAlive without the test for -1.
isAlive_NoSentinel(self, query, ms) ==
    LET authDate == NumberOfField(query, K_auth_date) IN
    IF authDate.nan THEN FALSE
    ELSE MathRoundSeconds(ms) - authDate.val <= self.options.queryExpiration

\* isAlive(query), with ms the value Date.now() returns.
isAlive(self, query, ms) ==
    LET authDate == NumberOfField(query, K_auth_date) IN
    IF self.options.queryExpiration = -1 THEN TRUE
    ELSE IF authDate.nan THEN FALSE
    ELSE MathRoundSeconds(ms) - authDate.val <= self.options.queryExpiration

\* allowedFields with hash among them.
allowedFields_WithHash ==
    <<K_id, K_first_name, K_last_name, K_username, K_photo_url, K_auth_date, K_hash>>

allowedFields ==
    <<K_id, K_first_name, K_last_name, K_username, K_photo_url, K_auth_date>>

\* hashString without .filter(): every key of the query but hash is signed.
hashString_NoFilter(query) ==
    LET filtered == SelectSeq(ObjectKeys(query), LAMBDA key : key # K_hash)
        sorted == ArraySort(filtered)
        mapped == [i \in 1..Len(sorted) |->
                      sorted[i] \o <<"=">> \o Field(query, sorted[i])]
    IN  ArrayJoin(mapped, <<"\n">>)

\* hashString without .sort().
hashString_Unsorted(query) ==
    LET filtered == SelectSeq(ObjectKeys(query),
                              LAMBDA key : ArrayIncludes(allowedFields, key))
        mapped == [i \in 1..Len(filtered) |->
                      filtered[i] \o <<"=">> \o Field(query, filtered[i])]
    IN  ArrayJoin(mapped, <<"\n">>)

\* The string hasValidSignature signs: the allowed keys of the query,
\* sorted, each as key=value, joined by a newline.
hashString(query) ==
    LET filtered == SelectSeq(ObjectKeys(query),
                              LAMBDA key : ArrayIncludes(allowedFields, key))
        sorted == ArraySort(filtered)
        mapped == [i \in 1..Len(sorted) |->
                      sorted[i] \o <<"=">> \o Field(query, sorted[i])]
    IN  ArrayJoin(mapped, <<"\n">>)

hasValidSignature(self, query) ==
    LET hash == HmacSha256Hex(self.hashedBotToken, hashString(query)) IN
    HasField(query, K_hash) /\ Field(query, K_hash) = hash

Accepted == [ret |-> TRUE, fail |-> <<>>]

Rejected(message, status) ==
    [ret |-> FALSE, fail |-> <<[message |-> message, status |-> status]>>]

\* validateQuery with the signature checked ahead of the freshness.
validateQuery_SignatureFirst(self, query, ms) ==
    IF Falsy(query, K_auth_date) \/ Falsy(query, K_hash) \/ Falsy(query, K_id)
    THEN Rejected("Missing some important data", 400)
    ELSE IF ~hasValidSignature(self, query)
    THEN Rejected("Hash validation failed", 403)
    ELSE IF ~isAlive(self, query, ms)
    THEN Rejected("Data is outdated", 400)
    ELSE Accepted

\* validateQuery(query): what it returns and the fail call it makes, if any.
validateQuery(self, query, ms) ==
    IF Falsy(query, K_auth_date) \/ Falsy(query, K_hash) \/ Falsy(query, K_id)
    THEN Rejected("Missing some important data", 400)
    ELSE IF ~isAlive(self, query, ms)
    THEN Rejected("Data is outdated", 400)
    ELSE IF ~hasValidSignature(self, query)
    THEN Rejected("Hash validation failed", 403)
    ELSE Accepted

(***************************************************************************)
(* Inputs: options, clock readings, queries                                *)
(***************************************************************************)
T_abc == <<"a", "b", "c">>

T_xyz == <<"x", "y", "z">>

OptionInputs ==
    [botToken : {None, Some(<<>>), Some(T_abc)},
     queryExpiration : {None, Some(-1), Some(0), Some(1)},
     passReqToCallback : {None, Some(TRUE)}]

VerifyInputs == {None, Some("verify")}

\* Date.now() is read in whole milliseconds; the model offers the start, the
\* last millisecond of the lower half and the middle of each second.
MaxClock == 3

Instants == {1000 * sec + off : sec \in 0..MaxClock, off \in {0, 499, 500}}

\* A property that is absent, or present with one of the values.
OptionalField(k, values) == {<<>>} \cup {<< <<k, v>> >> : v \in values}

IdValues == {<<>>, <<"1">>}

NameValues == {<<>>, <<"a">>}

AuthDateValues == {<<>>, <<"0">>, <<"1">>, <<"2">>, <<"a">>, <<"1", "a">>}

\* The fields of a query besides hash, in the order the login widget sends
\* them; lang stands for a parameter outside the allowed fields.
Bodies ==
    {i \o f \o u \o l \o d :
        i \in OptionalField(K_id, IdValues),
        f \in OptionalField(K_first_name, NameValues),
        u \in OptionalField(K_username, {<<"b">>}),
        l \in OptionalField(K_lang, {<<"e", "n">>}),
        d \in OptionalField(K_auth_date, AuthDateValues)}

\* The data-check-string of the login widget's protocol, written from the
\* protocol and not from the code: the received fields that the protocol
\* names, in alphabetical order of their names, as name=value lines.
ProtocolNames ==
    <<K_auth_date, K_first_name, K_id, K_last_name, K_photo_url, K_username>>

RECURSIVE DataCheckLines(_, _)
DataCheckLines(body, names) ==
    IF names = <<>> THEN <<>>
    ELSE LET rest == DataCheckLines(body, Tail(names))
             line == Head(names) \o <<"=">> \o Field(body, Head(names))
         IN  IF ~HasField(body, Head(names)) THEN rest
             ELSE IF rest = <<>> THEN line
             ELSE line \o <<"\n">> \o rest

DataCheckString(body) == DataCheckLines(body, ProtocolNames)

\* The signature the issuer holding botToken gives the body.
IssuerHash(botToken, body) == HmacSha256Hex(Sha256(botToken), DataCheckString(body))

\* Other strings a signer could sign in place of the data-check-string: every
\* received field, the fields unsorted, an absent name as an empty value.
AllFieldsString(body) ==
    ArrayJoin([i \in 1..Len(body) |-> body[i][1] \o <<"=">> \o body[i][2]], <<"\n">>)

WithFirstName(body) ==
    IF HasField(body, K_first_name) THEN body
    ELSE body \o << <<K_first_name, <<>> >> >>

HashValues(body) ==
    {<<>>, <<"0">>}
    \cup {IssuerHash(t, body) : t \in {T_abc, T_xyz}}
    \cup {UpperHex(IssuerHash(T_abc, body))}
    \cup {HmacSha256Hex(T_abc, DataCheckString(body))}
    \cup {HmacSha256Hex(Sha256(T_abc), AllFieldsString(body))}
    \cup {IssuerHash(T_abc, WithFirstName(body))}

Reverse(seq) == [i \in 1..Len(seq) |-> seq[Len(seq) + 1 - i]]

\* Every query offered: a body, with or without a hash, in either order.
Queries ==
    LET widget == UNION {{b} \cup {b \o << <<K_hash, h>> >> : h \in HashValues(b)} :
                         b \in Bodies}
    IN  widget \cup {Reverse(q) : q \in widget}

(***************************************************************************)
(* Host calls: this.success, this.fail, this.error                         *)
(***************************************************************************)
HostCall(fn, site, args) == [fn |-> fn, site |-> site, args |-> args]

\* The host's fail for the rejection validateQuery decided.
FailOfValidate(out) ==
    HostCall("fail", "validateQuery",
             <<[message |-> out.fail[1].message], out.fail[1].status>>)

(***************************************************************************)
(* State                                                                   *)
(***************************************************************************)
NoCall ==
    [called |-> FALSE, query |-> <<>>, ms |-> 0, ret |-> "none", calls |-> <<>>]

Pending == [state |-> "pending", value |-> <<>>]

\* An authenticate(req) run that has not started.
Idle ==
    [pc |-> "idle", req |-> None, query |-> None, ms |-> 0,
     invoked |-> <<>>, promise |-> Pending, dones |-> 0, first |-> None,
     calls |-> <<>>, result |-> Pending]

InitWith(attempts) ==
    /\ strategy = NoStrategy
    /\ vq = NoCall
    /\ att = [a \in attempts |-> Idle]

\* One run of authenticate, unless a specification says otherwise.
Runs == {1}

Init == InitWith(Runs)

\* new Strategy(options, verify)
Constructor ==
    /\ strategy.made = "no"
    /\ \E options \in OptionInputs, verify \in VerifyInputs :
          strategy' = [Construct(options, verify) EXCEPT !.args = <<options, verify>>]
    /\ UNCHANGED <<vq, att>>

\* strategy.validateQuery(query), called on its own with the clock at one of
\* the instants; the host's fail returns or throws, and what it throws
\* leaves validateQuery.
CallValidateQueryAt(instants) ==
    /\ strategy.made = "yes"
    /\ ~vq.called
    /\ \E query \in Queries, ms \in instants :
          LET out == validateQuery(strategy, query, ms) IN
          IF out.ret
          THEN vq' = [called |-> TRUE, query |-> query, ms |-> ms,
                      ret |-> "true", calls |-> <<>>]
          ELSE \E failThrows \in BOOLEAN :
                  vq' = [called |-> TRUE, query |-> query, ms |-> ms,
                         ret |-> IF failThrows THEN "threw" ELSE "false",
                         calls |-> <<FailOfValidate(out)>>]
    /\ UNCHANGED <<strategy, att>>

CallValidateQuery == CallValidateQueryAt(Instants)

NextValidate == Constructor \/ CallValidateQuery

SpecValidate == Init /\ [][NextValidate]_vars

\* The same call with the clock two and a half seconds after the epoch,
\* where the queries of the model are too old for the window 0, too old
\* but for the latest for the window 1, and young enough for the others.
CanonInstants == {2500}

NextCanon == Constructor \/ CallValidateQueryAt(CanonInstants)

SpecCanon == Init /\ [][NextCanon]_vars

(***************************************************************************)
(* authenticate(req)                                                       *)
(***************************************************************************)
\* The queries the authenticate runs are offered: the widget's fields with
\* an allowed and a foreign name, a good and a bad timestamp, with and
\* without id, signed with the bot's token, with another, or unsigned.
ControllerBodies ==
    {i \o << <<K_lang, <<"e", "n">> >> >> \o << <<K_auth_date, d>> >> :
        i \in OptionalField(K_id, {<<"1">>}), d \in {<<"1">>, <<"a">>}}

ControllerQueries ==
    UNION {{b} \cup {b \o << <<K_hash, IssuerHash(t, b)>> >> : t \in {T_abc, T_xyz}} :
           b \in ControllerBodies}

OtherSide == {None, Some(<< <<K_id, <<"1">> >> >>)}

\* req: the method, and req.query and req.body, each an object or undefined.
Requests ==
    LET side == {None} \cup {Some(q) : q \in ControllerQueries} IN
    {r \in [method : {"GET", "POST"}, query : side \cup OtherSide,
            body : side \cup OtherSide] :
        IF r.method = "GET" THEN r.body \in OtherSide ELSE r.query \in OtherSide}

\* What the decision function and the host hand over: JavaScript values.
ErrValues == {"null", "E1"}

UserValues == {"false", "user1"}

InfoValues == {"undefined", "info1"}

ThrownValues == {"X1"}

Truthy(v) == v \notin {"undefined", "null", "false"}

\* How many times one decision function invokes done, at most.
MaxDone == 2

Fulfilled == [state |-> "fulfilled", value |-> <<>>]

Threw(e) == [state |-> "rejected", value |-> <<e>>]

\* catch (e) { this.error(e); }: what error throws leaves authenticate.
Catch(calls, e, errorThrows) ==
    [calls |-> calls \o <<HostCall("error", "catch", <<e>>)>>,
     result |-> IF errorThrows THEN Threw("thrown by error") ELSE Fulfilled]

\* A host call made inside the try block, followed by return.
Report(call, throws, errorThrows) ==
    IF throws
    THEN Catch(<<call>>, "thrown by " \o call.fn, errorThrows)
    ELSE [calls |-> <<call>>, result |-> Fulfilled]

\* const query = req.method === 'GET' ? req.query : req.body;
ExtractQuery(req) == IF req.method = "GET" THEN req.query ELSE req.body

\* The fail call validateQuery made, if it made one.
ValidateCalls(out) == IF out.fail = <<>> THEN <<>> ELSE <<FailOfValidate(out)>>

\* authenticate without the return after a rejection.
ProceedsToVerify_Always(out) == TRUE

\* if (!this.validateQuery(query)) { return; }: whether authenticate goes on.
ProceedsToVerify(out) == out.ret

\* this.verify called with the request whatever passReqToCallback is.
VerifyArgs_AlwaysReq(self, req, query) == <<req, query, "done">>

\* The arguments the decision function gets from this.verify: (req, query,
\* done) with passReqToCallback, (query, done) without.
VerifyArgs(self, req, query) ==
    IF self.options.passReqToCallback
    THEN <<req, query, "done">>
    ELSE <<query, "done">>

\* authenticate(req) up to its await, with the clock at one of the
\* instants: the query is taken from the request and validated; a rejection
\* is reported and the run ends; otherwise this.verify calls the decision
\* function, which starts to run.
AuthenticateAt(a, requests, instants) ==
    /\ strategy.made = "yes"
    /\ att[a].pc = "idle"
    /\ \E req \in requests, ms \in instants, failThrows, errorThrows \in BOOLEAN :
          LET query == ExtractQuery(req)
              started == [att[a] EXCEPT !.req = Some(req), !.query = query, !.ms = ms]
          IN
          IF query = None
          THEN \* query.auth_date of undefined: a TypeError inside the try block
               LET r == Catch(<<>>, "TypeError", errorThrows) IN
               att' = [att EXCEPT ![a] = [started EXCEPT !.pc = "done",
                                             !.calls = r.calls, !.result = r.result]]
          ELSE LET out == validateQuery(strategy, query[1], ms) IN
               IF ~out.ret /\ failThrows
               THEN LET r == Report(FailOfValidate(out), TRUE, errorThrows) IN
                    att' = [att EXCEPT ![a] = [started EXCEPT !.pc = "done",
                                                  !.calls = r.calls, !.result = r.result]]
               ELSE IF ~ProceedsToVerify(out)
               THEN att' = [att EXCEPT ![a] = [started EXCEPT !.pc = "done",
                               !.calls = ValidateCalls(out), !.result = Fulfilled]]
               ELSE att' = [att EXCEPT ![a] = [started EXCEPT !.pc = "inVerify",
                               !.calls = ValidateCalls(out),
                               !.invoked = <<VerifyArgs(strategy, req, query[1])>>]]
    /\ UNCHANGED <<strategy, vq>>

Authenticate(a, requests) == AuthenticateAt(a, requests, Instants)

\* The callback of this.verify settling the promise anew at every
\* invocation of done.
Settle_LastWins(promise, err, user, info) ==
    IF Truthy(err) THEN [state |-> "rejected", value |-> <<err>>]
    ELSE [state |-> "resolved", value |-> <<user, info>>]

\* The callback of this.verify with an err that is dropped: the promise
\* stays as it was.
Settle_DropsError(promise, err, user, info) ==
    IF promise.state # "pending" THEN promise
    ELSE IF Truthy(err) THEN promise
    ELSE [state |-> "resolved", value |-> <<user, info>>]

\* The callback of this.verify without its reject branch.
Settle_NoReject(promise, err, user, info) ==
    IF promise.state # "pending" THEN promise
    ELSE [state |-> "resolved", value |-> <<user, info>>]

\* The promise of this.verify after done(err, user, info): the first
\* settlement stands.
Settle(promise, err, user, info) ==
    IF promise.state # "pending" THEN promise
    ELSE IF Truthy(err) THEN [state |-> "rejected", value |-> <<err>>]
    ELSE [state |-> "resolved", value |-> <<user, info>>]

\* The decision function invokes done(err, user, info), while it runs or
\* later from a callback of its own.
DecisionDone(a) ==
    /\ att[a].pc \in {"inVerify", "awaiting", "done"}
    /\ att[a].invoked # <<>>
    /\ att[a].dones < MaxDone
    /\ \E err \in ErrValues, user \in UserValues, info \in InfoValues :
          att' = [att EXCEPT ![a].promise = Settle(@, err, user, info),
                             ![a].dones = @ + 1,
                             ![a].first = IF @ = None
                                          THEN Some(<<"done", err, user, info>>)
                                          ELSE @]
    /\ UNCHANGED <<strategy, vq>>

\* The decision function throws while this.verify is calling it: the
\* promise executor rejects the promise, unless it is settled already.
DecisionThrow(a) ==
    /\ att[a].pc = "inVerify"
    /\ \E x \in ThrownValues :
          att' = [att EXCEPT ![a].pc = "awaiting",
                             ![a].promise = IF @.state = "pending"
                                            THEN [state |-> "rejected", value |-> <<x>>]
                                            ELSE @,
                             ![a].first = IF @ = None THEN Some(<<"throw", x>>) ELSE @]
    /\ UNCHANGED <<strategy, vq>>

\* The decision function returns to this.verify; authenticate is suspended
\* at its await.
DecisionReturn(a) ==
    /\ att[a].pc = "inVerify"
    /\ att' = [att EXCEPT ![a].pc = "awaiting"]
    /\ UNCHANGED <<strategy, vq>>

\* One promise kept for all the runs, that of the first, in place of one
\* per call of this.verify.
PromiseOf_Shared(a) == att[CHOOSE b \in DOMAIN att : \A c \in DOMAIN att : b <= c].promise

\* The promise a run awaits: the one its own call of this.verify made.
PromiseOf(a) == att[a].promise

\* authenticate(req) from its await on: a rejected promise goes to the catch
\* block, a resolved one to fail or success by the truth of user.
Resume(a) ==
    /\ att[a].pc = "awaiting"
    /\ PromiseOf(a).state # "pending"
    /\ \E hostThrows, errorThrows \in BOOLEAN :
          LET p == PromiseOf(a)
              r == IF p.state = "rejected"
                   THEN Catch(<<>>, p.value[1], errorThrows)
                   ELSE IF ~Truthy(p.value[1])
                   THEN Report(HostCall("fail", "authenticate", <<p.value[2]>>),
                               hostThrows, errorThrows)
                   ELSE Report(HostCall("success", "authenticate",
                                        <<p.value[1], p.value[2]>>),
                               hostThrows, errorThrows)
          IN  att' = [att EXCEPT ![a].pc = "done", ![a].calls = @ \o r.calls,
                                 ![a].result = r.result]
    /\ UNCHANGED <<strategy, vq>>

Next ==
    \/ Constructor
    \/ \E a \in DOMAIN att : Authenticate(a, Requests)
    \/ \E a \in DOMAIN att : DecisionDone(a)
    \/ \E a \in DOMAIN att : DecisionThrow(a)
    \/ \E a \in DOMAIN att : DecisionReturn(a)
    \/ \E a \in DOMAIN att : Resume(a)

Spec == Init /\ [][Next]_vars

\* The scheduling the runtime gives: the decision function, once called,
\* returns or throws, and the continuation of authenticate runs once the
\* promise it awaits is settled. Nothing makes the decision function
\* invoke done.
Fairness ==
    \A a \in Runs :
        /\ WF_vars(DecisionReturn(a) \/ DecisionThrow(a))
        /\ WF_vars(Resume(a))

SpecLive == Init /\ [][Next]_vars /\ Fairness

\* Two runs of authenticate on one instance, interleaved in every way, at
\* one reading of the clock and for the GET requests that carry a complete
\* query of that second, signed with the bot's token or with another.
ConcAttempts == {1, 2}

ConcInstants == {1000}

ConcRequests ==
    {r \in Requests :
        /\ r.method = "GET"
        /\ r.query # None
        /\ r.body = None
        /\ HasField(ExtractQuery(r)[1], K_id)
        /\ HasField(ExtractQuery(r)[1], K_hash)
        /\ Field(ExtractQuery(r)[1], K_auth_date) = <<"1">>}

InitConc == InitWith(ConcAttempts)

NextConc ==
    \/ Constructor
    \/ \E a \in DOMAIN att : AuthenticateAt(a, ConcRequests, ConcInstants)
    \/ \E a \in DOMAIN att : DecisionDone(a)
    \/ \E a \in DOMAIN att : DecisionThrow(a)
    \/ \E a \in DOMAIN att : DecisionReturn(a)
    \/ \E a \in DOMAIN att : Resume(a)

SpecConc == InitConc /\ [][NextConc]_vars

(***************************************************************************)
(* Properties of authenticate(req)                                         *)
(***************************************************************************)
Finished(a) == att[a].pc = "done"

\* What the decision function did first: done(err, user, info) or a throw.
FirstIsError(a) ==
    /\ att[a].first # None
    /\ \/ att[a].first[1][1] = "throw"
       \/ att[a].first[1][1] = "done" /\ Truthy(att[a].first[1][2])

FirstIsVerdict(a) ==
    /\ att[a].first # None
    /\ att[a].first[1][1] = "done"
    /\ ~Truthy(att[a].first[1][2])

FirstError(a) == att[a].first[1][2]

\* C1: a run of authenticate that has finished has invoked exactly one of
\* success, fail and error, exactly once, whatever the request, the decision
\* function and the host's callbacks do.
C1_ExactlyOneHostCall ==
    \A a \in DOMAIN att : Finished(a) => Len(att[a].calls) = 1

\* C4: a query validateQuery rejects gets the fail call of validateQuery
\* first, the run ends there and the decision function is never invoked;
\* the decision function is invoked only for a query validateQuery accepts,
\* in a run where validateQuery has made no fail call.
C4_RejectedNeverReachesDecision ==
    \A a \in DOMAIN att :
        (att[a].pc # "idle" /\ att[a].query # None) =>
            LET out == validateQuery(strategy, att[a].query[1], att[a].ms) IN
            /\ ~out.ret =>
                  /\ Finished(a)
                  /\ att[a].invoked = <<>>
                  /\ att[a].dones = 0
                  /\ att[a].calls # <<>>
                  /\ att[a].calls[1] =
                        HostCall("fail", "validateQuery",
                                 <<[message |-> out.fail[1].message], out.fail[1].status>>)
            /\ att[a].invoked # <<>> =>
                  /\ out.ret
                  /\ \A i \in 1..Len(att[a].calls) : att[a].calls[i].site # "validateQuery"

\* C4 witness: a rejected query has been reported and its run has ended
\* with the decision function not invoked.
C4_Witness ==
    \E a \in DOMAIN att :
        /\ Finished(a)
        /\ att[a].invoked = <<>>
        /\ att[a].calls # <<>>
        /\ att[a].calls[1].site = "validateQuery"
        /\ att[a].calls[1].args[2] = 403

\* C5: when the first thing the decision function does for an accepted
\* query is to report an error, by done with a truthy err or by throwing,
\* the finished run has called error once with that value and has called
\* neither success nor fail.
C5_DecisionErrorGoesToError ==
    \A a \in DOMAIN att :
        (Finished(a) /\ FirstIsError(a)) =>
            att[a].calls = <<HostCall("error", "catch", <<FirstError(a)>>)>>

\* C5 witness: a run has finished after done(err) with a truthy err.
C5_Witness ==
    \E a \in DOMAIN att :
        /\ Finished(a)
        /\ FirstIsError(a)
        /\ att[a].first[1][1] = "done"
        /\ att[a].calls[1].fn = "error"

\* C6: when the decision function calls done with no error, the finished
\* run has called fail(info) alone if the identity is falsy and
\* success(identity, info) alone if it is truthy.
C6_VerdictGoesToFailOrSuccess ==
    \A a \in DOMAIN att :
        (Finished(a) /\ FirstIsVerdict(a)) =>
            LET user == att[a].first[1][3]
                info == att[a].first[1][4]
            IN  IF Truthy(user)
                THEN att[a].calls = <<HostCall("success", "authenticate", <<user, info>>)>>
                ELSE att[a].calls = <<HostCall("fail", "authenticate", <<info>>)>>

\* C10: the promise of authenticate(req) is never rejected: no exception
\* leaves authenticate.
C10_NoExceptionEscapes ==
    \A a \in DOMAIN att : att[a].result.state # "rejected"

(***************************************************************************)
(* Properties of validateQuery(query)                                      *)
(***************************************************************************)
Window == strategy.options.queryExpiration

Present(query, k) == HasField(query, k) /\ Field(query, k) # <<>>

RequiredPresent(query) ==
    Present(query, K_id) /\ Present(query, K_auth_date) /\ Present(query, K_hash)

\* The whole second nearest to the clock reading, the upper one at a half.
NearestSecond(ms) ==
    CHOOSE n \in 0..(MaxClock + 1) : 1000 * n - 500 <= ms /\ ms < 1000 * n + 500

AuthDateParses(query) == ~NumberOfField(query, K_auth_date).nan

AuthDateValue(query) == NumberOfField(query, K_auth_date).val

\* The age of the query in whole seconds is within the window.
Fresh(query, ms) ==
    AuthDateParses(query) /\ NearestSecond(ms) - AuthDateValue(query) <= Window

\* hash is the issuer's signature of the query under the bot's token.
SignedByIssuer(query) ==
    Field(query, K_hash) = IssuerHash(strategy.options.botToken, query)

FailCall(message, status) ==
    HostCall("fail", "validateQuery", <<[message |-> message], status>>)

VqAccepted == vq.called /\ vq.ret = "true" /\ vq.calls = <<>>

VqRejected(message, status) ==
    vq.called /\ vq.ret # "true" /\ vq.calls = <<FailCall(message, status)>>

\* C2: validateQuery returns true without calling fail exactly when id,
\* auth_date and hash are present and non-empty, the window is -1 or the
\* query is fresh, and hash is the lowercase hex HMAC-SHA256, under the key
\* SHA256(botToken), of the protocol's data-check-string; otherwise it calls
\* fail once.
C2_AcceptedIffPresentFreshSigned ==
    vq.called =>
        /\ VqAccepted <=>
              /\ RequiredPresent(vq.query)
              /\ Window = -1 \/ Fresh(vq.query, vq.ms)
              /\ SignedByIssuer(vq.query)
        /\ ~VqAccepted => (vq.ret # "true" /\ Len(vq.calls) = 1 /\ vq.calls[1].fn = "fail")

\* C2 witness: a query in the widget's order, with an optional and a foreign
\* field, signed by the issuer, has been accepted.
C2_Witness ==
    /\ VqAccepted
    /\ vq.query[1][1] = K_id
    /\ HasField(vq.query, K_first_name)
    /\ HasField(vq.query, K_lang)

\* One character of the value of one signed field replaced by another.
TamperAlphabet == {"0", "1", "2", "a", "b"}

SetField(query, k, v) ==
    [j \in 1..Len(query) |-> IF query[j][1] = k THEN <<k, v>> ELSE query[j]]

TamperedField(query, k) ==
    LET v == Field(query, k) IN
    UNION {{<<k, SetField(query, k, [v EXCEPT ![i] = c])>> :
               c \in TamperAlphabet \ {v[i]}} :
           i \in 1..Len(v)}

Tampered(query) ==
    UNION {TamperedField(query, ProtocolNames[n]) :
           n \in {m \in 1..Len(ProtocolNames) : HasField(query, ProtocolNames[m])}}

\* C3 as stated: every one-character change of a signed field of an accepted
\* query, hash kept, is rejected with 'Hash validation failed', 403.
C3_TamperAlwaysForged ==
    VqAccepted =>
        \A t \in Tampered(vq.query) :
            validateQuery(strategy, t[2], vq.ms) = Rejected("Hash validation failed", 403)

\* C3 amended: every one-character change of a signed field of an accepted
\* query, hash kept, is rejected: with 'Data is outdated', 400, when the
\* field is auth_date, the window is not -1 and the changed value is not a
\* number or is older than the window; with 'Hash validation failed', 403,
\* in every other case.
C3_TamperRejected ==
    VqAccepted =>
        \A t \in Tampered(vq.query) :
            validateQuery(strategy, t[2], vq.ms) =
                IF t[1] = K_auth_date /\ Window # -1 /\ ~Fresh(t[2], vq.ms)
                THEN Rejected("Data is outdated", 400)
                ELSE Rejected("Hash validation failed", 403)

\* C3 witness: an accepted query with id, a name and auth_date, one of whose
\* auth_date changes is stale and another is fresh.
C3_Witness ==
    /\ VqAccepted
    /\ Window # -1
    /\ Present(vq.query, K_first_name)
    /\ \E t \in Tampered(vq.query) : t[1] = K_auth_date /\ ~Fresh(t[2], vq.ms)
    /\ \E t \in Tampered(vq.query) : t[1] = K_auth_date /\ Fresh(t[2], vq.ms)

\* C7: with a window W other than -1 and now the whole second nearest to the
\* clock, a complete, correctly signed query with auth_date = now - W is
\* accepted and one with auth_date = now - W - 1 is rejected with
\* 'Data is outdated', 400, at every instant within the second.
C7_BoundaryInclusive ==
    (/\ vq.called
     /\ Window # -1
     /\ RequiredPresent(vq.query)
     /\ AuthDateParses(vq.query)
     /\ SignedByIssuer(vq.query)) =>
        /\ AuthDateValue(vq.query) = NearestSecond(vq.ms) - Window => VqAccepted
        /\ AuthDateValue(vq.query) = NearestSecond(vq.ms) - Window - 1 =>
              VqRejected("Data is outdated", 400)

\* C7 witness: at the middle of a second, a query aged exactly the window,
\* counted from the second the clock rounds up to, has been accepted.
C7_Witness ==
    /\ VqAccepted
    /\ Window = 1
    /\ vq.ms = 1500
    /\ AuthDateValue(vq.query) = 1

C9_SentinelAcceptsAnyAge ==
    (/\ vq.called
     /\ Window = -1
     /\ RequiredPresent(vq.query)
     /\ AuthDateParses(vq.query)
     /\ SignedByIssuer(vq.query)) => VqAccepted

\* C9 witness: under the window -1 a query three seconds old or older, older
\* than every other window but the default, has been accepted.
C9_Witness ==
    /\ VqAccepted
    /\ Window = -1
    /\ AuthDateParses(vq.query)
    /\ NearestSecond(vq.ms) - AuthDateValue(vq.query) >= 3

\* What the call of validateQuery in vq did is what out says.
VqIs(out) ==
    /\ vq.called
    /\ vq.ret = "true" <=> out.ret
    /\ vq.calls = ValidateCalls(out)

K_aa == <<"a", "a">>

K_zz == <<"z", "z">>

\* The query with properties of foreign names added, ahead of its own and
\* after them; the names sort before, between and after the allowed ones.
Extensions(query) ==
    {pre \o query \o l \o z :
        pre \in OptionalField(K_aa, {<<"1">>}),
        l \in IF HasField(query, K_lang) THEN {<<>>}
              ELSE OptionalField(K_lang, {<<"e", "n">>}),
        z \in OptionalField(K_zz, {<<>>, <<"1">>})}

\* C11: a query extended with properties whose names are outside the
\* allowed fields, and are not hash, gives the same signed string, the same
\* signature and the same result of validateQuery as the query itself.
C11_ForeignFieldsIgnored ==
    vq.called =>
        \A e \in Extensions(vq.query) :
            /\ hashString(e) = hashString(vq.query)
            /\ HmacSha256Hex(strategy.hashedBotToken, hashString(e)) =
                  HmacSha256Hex(strategy.hashedBotToken, DataCheckString(vq.query))
            /\ VqIs(validateQuery(strategy, e, vq.ms))

\* C11 witness: an accepted query that carries a foreign property and has
\* room for two more.
C11_Witness ==
    /\ VqAccepted
    /\ HasField(vq.query, K_lang)
    /\ Cardinality(Extensions(vq.query)) = 6

\* The query with its properties inserted in another order: each rotation
\* of the query and of its reverse.
Rotate(seq, n) == [i \in 1..Len(seq) |-> seq[((i + n - 1) % Len(seq)) + 1]]

Reorders(query) ==
    UNION {{Rotate(query, n), Rotate(Reverse(query), n)} : n \in 1..Len(query)}

\* C12: two queries with the same properties inserted in different orders
\* give the same signed string and the same result of validateQuery.
C12_InsertionOrderIrrelevant ==
    vq.called =>
        \A r \in Reorders(vq.query) :
            /\ hashString(r) = hashString(vq.query)
            /\ hashString(r) = DataCheckString(vq.query)
            /\ VqIs(validateQuery(strategy, r, vq.ms))

\* C12 witness: an accepted query of five properties that starts with hash,
\* the reverse of the widget's order.
C12_Witness ==
    /\ VqAccepted
    /\ Len(vq.query) = 5
    /\ vq.query[1][1] = K_hash
    /\ Cardinality(Reorders(vq.query)) = 10

\* C16: with a window of zero or more, a query whose auth_date is later
\* than the clock, with id, auth_date and hash and the issuer's signature,
\* is accepted.
C16_FutureTimestampAccepted ==
    (/\ vq.called
     /\ Window >= 0
     /\ RequiredPresent(vq.query)
     /\ AuthDateParses(vq.query)
     /\ 1000 * AuthDateValue(vq.query) > vq.ms
     /\ SignedByIssuer(vq.query)) => VqAccepted

\* C16 witness: under the window 0 a query dated two seconds ahead of the
\* clock has been accepted.
C16_Witness ==
    /\ VqAccepted
    /\ Window = 0
    /\ AuthDateParses(vq.query)
    /\ AuthDateValue(vq.query) = 2
    /\ vq.ms = 0

\* C17: validateQuery makes at most one fail call; a query without id,
\* auth_date or hash gets 'Missing some important data', 400, whatever its
\* age and signature; a complete query that is not fresh gets
\* 'Data is outdated', 400, whatever its signature; status 403 is given only
\* to a complete, fresh query whose signature is not the issuer's.
C17_ChecksInOrder ==
    vq.called =>
        /\ Len(vq.calls) <= 1
        /\ ~RequiredPresent(vq.query) => VqRejected("Missing some important data", 400)
        /\ (/\ RequiredPresent(vq.query)
            /\ Window # -1
            /\ ~Fresh(vq.query, vq.ms)) => VqRejected("Data is outdated", 400)
        /\ (vq.calls # <<>> /\ vq.calls[1].args[2] = 403) =>
              /\ RequiredPresent(vq.query)
              /\ Window = -1 \/ Fresh(vq.query, vq.ms)
              /\ ~SignedByIssuer(vq.query)
              /\ vq.calls[1].args[1].message = "Hash validation failed"

\* C17 witness: a complete query, out of date and signed with another
\* token, has been rejected as outdated.
C17_Witness ==
    /\ VqRejected("Data is outdated", 400)
    /\ RequiredPresent(vq.query)
    /\ AuthDateParses(vq.query)
    /\ Field(vq.query, K_hash) = IssuerHash(T_xyz, vq.query)

\* C18: the string hasValidSignature signs is the data-check-string: the
\* allowed names present in the query, sorted, as name=value, joined by one
\* newline; an absent name gives no line, not a line with an empty value,
\* and hash gives none.
C18_SignedStringIsDataCheckString ==
    vq.called =>
        /\ hashString(vq.query) = DataCheckString(vq.query)
        /\ ~HasField(vq.query, K_first_name) =>
              hashString(vq.query) # DataCheckString(WithFirstName(vq.query))
        /\ HasField(vq.query, K_hash) =>
              hashString(vq.query) =
                  hashString(SelectSeq(vq.query, LAMBDA pair : pair[1] # K_hash))

\* C18 witness: a query in reverse order with hash, a foreign property and
\* username, and without first_name.
C18_Witness ==
    /\ vq.called
    /\ Len(vq.query) = 5
    /\ vq.query[1][1] = K_hash
    /\ HasField(vq.query, K_lang)
    /\ HasField(vq.query, K_username)
    /\ HasField(vq.query, K_id)
    /\ ~HasField(vq.query, K_first_name)

(***************************************************************************)
(* Properties of the constructor                                           *)
(***************************************************************************)
Constructed == strategy.made # "no"

ClaimOf(req) == IF req.method = "GET" THEN req.query[1] ELSE req.body[1]

\* C14: in a run whose query validateQuery accepts, the decision function
\* has been invoked once and no more, with (req, query, done) when the
\* constructor was given passReqToCallback true and (query, done) when it
\* was given none, and query is the object the request carries, with all
\* its properties, those outside the allowed fields too.
C14_DecisionInvokedOnceWithClaim ==
    \A a \in DOMAIN att :
        (/\ att[a].pc # "idle"
         /\ att[a].query # None
         /\ validateQuery(strategy, att[a].query[1], att[a].ms).ret) =>
            LET req == att[a].req[1] IN
            /\ Len(att[a].invoked) = 1
            /\ att[a].invoked[1] =
                  IF strategy.args[1].passReqToCallback = Some(TRUE)
                  THEN <<req, ClaimOf(req), "done">>
                  ELSE <<ClaimOf(req), "done">>

\* C14 witness: with no passReqToCallback given, a run has finished whose
\* decision function got the query, foreign property included, and done.
C14_Witness ==
    \E a \in DOMAIN att :
        /\ Finished(a)
        /\ strategy.args[1].passReqToCallback = None
        /\ Len(att[a].invoked) = 1
        /\ Len(att[a].invoked[1]) = 2
        /\ HasField(att[a].invoked[1][1], K_lang)
        /\ att[a].dones = 2

(***************************************************************************)
(* Properties of interleaved runs                                          *)
(***************************************************************************)
\* The host call a finished run owes to its own request, its own reading
\* of the clock and what its own decision function did first.
OwnOutcome(a) ==
    LET req == att[a].req[1]
        first == att[a].first[1]
    IN
    IF ExtractQuery(req) = None
    THEN HostCall("error", "catch", <<"TypeError">>)
    ELSE LET out == validateQuery(strategy, ClaimOf(req), att[a].ms) IN
         IF ~out.ret THEN FailOfValidate(out)
         ELSE IF first[1] = "throw" THEN HostCall("error", "catch", <<first[2]>>)
         ELSE IF Truthy(first[2]) THEN HostCall("error", "catch", <<first[2]>>)
         ELSE IF ~Truthy(first[3]) THEN HostCall("fail", "authenticate", <<first[4]>>)
         ELSE HostCall("success", "authenticate", <<first[3], first[4]>>)

\* C15: with two runs of authenticate interleaved on one instance, each
\* finished run has reported the outcome, identity and info that its own
\* query and its own decision function's first act determine, followed at
\* most by the error call for what its own host callback threw; a run
\* still suspended has reported nothing; and the instance keeps the
\* options and hashedBotToken the constructor gave it.
C15_RunsAreIndependent ==
    /\ \A a \in DOMAIN att :
          /\ Finished(a) =>
                /\ att[a].calls # <<>>
                /\ att[a].calls[1] = OwnOutcome(a)
                /\ Len(att[a].calls) <= 2
                /\ Len(att[a].calls) = 2 =>
                      att[a].calls[2] =
                          HostCall("error", "catch", <<"thrown by " \o att[a].calls[1].fn>>)
          /\ att[a].pc \in {"inVerify", "awaiting"} => att[a].calls = <<>>
    /\ Constructed =>
          strategy = [Construct(strategy.args[1], strategy.args[2])
                         EXCEPT !.args = strategy.args]

\* C15 witness: the second run has finished with the error its decision
\* function reported while the first, whose decision function has named
\* a user, is still suspended; both were given the same request.
C15_Witness ==
    /\ DOMAIN att = ConcAttempts
    /\ att[1].pc = "awaiting"
    /\ att[1].promise.state = "resolved"
    /\ att[1].promise.value[1] = "user1"
    /\ Finished(2)
    /\ att[2].req = att[1].req
    /\ att[2].calls = <<HostCall("error", "catch", <<"E1">>)>>

(***************************************************************************)
(* Properties of the promise of this.verify                                *)
(***************************************************************************)
\* The settlement the decision function's first act asks for.
SettledByFirst(a) ==
    LET first == att[a].first[1] IN
    IF first[1] = "throw" THEN [state |-> "rejected", value |-> <<first[2]>>]
    ELSE IF Truthy(first[2]) THEN [state |-> "rejected", value |-> <<first[2]>>]
    ELSE [state |-> "resolved", value |-> <<first[3], first[4]>>]

\* C19: once the decision function has invoked done or thrown, the promise
\* of this.verify is settled as that first act asks and stays so whatever
\* done invocations or throw follow; the finished run has made the host
\* call the first act determines, and the only call that can follow it is
\* the catch block's error for what that host callback threw.
C19_FirstDoneSettles ==
    \A a \in DOMAIN att :
        att[a].first # None =>
            /\ att[a].promise = SettledByFirst(a)
            /\ att[a].pc \in {"inVerify", "awaiting"} => att[a].calls = <<>>
            /\ Finished(a) =>
                  /\ att[a].calls # <<>>
                  /\ att[a].calls[1] = OwnOutcome(a)
                  /\ Len(att[a].calls) <= 2
                  /\ Len(att[a].calls) = 2 =>
                        /\ att[a].calls[1].fn # "error"
                        /\ att[a].calls[2] =
                              HostCall("error", "catch",
                                       <<"thrown by " \o att[a].calls[1].fn>>)

\* C19 witness: a run whose decision function invoked done twice, first
\* naming a user, has finished with success for that user alone.
C19_Witness ==
    \E a \in DOMAIN att :
        /\ Finished(a)
        /\ att[a].dones >= 2
        /\ att[a].first = Some(<<"done", "null", "user1", "info1">>)
        /\ att[a].calls = <<HostCall("success", "authenticate", <<"user1", "info1">>)>>

(***************************************************************************)
(* Termination of authenticate(req)                                        *)
(***************************************************************************)
Suspended(a) == att[a].pc \in {"inVerify", "awaiting"}

\* C20: a run of authenticate whose query validateQuery rejects has made
\* its host call when authenticate returns; a run whose decision function
\* has invoked done or thrown leads to a finished run with a host call
\* made; and for as long as the decision function has done neither, the
\* run stays suspended with the promise pending and no host call made.
C20_OutcomeOrPendingForever ==
    \A a \in Runs :
        /\ [](att[a].pc # "idle" /\ att[a].invoked = <<>> =>
                 Finished(a) /\ att[a].calls # <<>>)
        /\ (att[a].first # None) ~> (Finished(a) /\ att[a].calls # <<>>)
        /\ [](att[a].invoked # <<>> /\ att[a].first = None =>
                 /\ Suspended(a)
                 /\ att[a].promise = Pending
                 /\ att[a].calls = <<>>
                 /\ att[a].result = Pending)

\* C20 witness: the decision function has returned without invoking done
\* and the run is suspended at its await.
C20_Witness ==
    \E a \in Runs :
        /\ att[a].pc = "awaiting"
        /\ att[a].invoked # <<>>
        /\ att[a].first = None
        /\ att[a].calls = <<>>

====
